---- MODULE Spec2Model ----
(***************************************************************************)
(* Audio version lifecycle of the JWX studio platform: the upload route,   *)
(* the activate-version route, the delete-version route and the stream     *)
(* route, acting on the AudioVersion and Comment tables and on the upload  *)
(* directory.                                                              *)
(*                                                                         *)
(* Every request is a process that runs one `await` at a time.  A database *)
(* call to prisma is one atomic step; the code between two awaits runs     *)
(* with the step that follows it.  Requests of different clients           *)
(* interleave freely between their steps (specification Spec) or run one   *)
(* after the other (specification SpecSeq).  SpecStream has uploads, also  *)
(* refused and failing ones, that run one after the other while stream     *)
(* requests read the upload directory; SpecAuth is SpecSeq with delete     *)
(* requests of every user; SpecLive is SpecStream with the fairness of the *)
(* event loop; SpecRace has one upload and one version delete that         *)
(* overlap; SpecCascade has uploads, track deletes and project deletes one *)
(* at a time; SpecLib applies the file type check of the upload route and  *)
(* the functions of the audio library to their arguments.                  *)
(***************************************************************************)
EXTENDS Integers, FiniteSets, Sequences, TLC

\* ---------------------------------------------------------------- bounds
\* number of requests that can be in flight at the same time
MaxReqs == 2
\* number of upload requests over a behaviour (each takes a fresh id)
MaxUploads == 3
\* number of upload requests over a behaviour with overlapping requests
MaxConcUploads == 2
\* number of comments in the Comment table
MaxComments == 1
\* number of bytes of an uploaded file
MaxFileSize == 3
\* number of upload requests over a behaviour with stream requests
MaxStreamUploads == 2
\* number of samples ffmpeg decodes for a waveform
MaxSamples == 3
\* number of values of a waveform
MaxWidth == 4

\* ------------------------------------------------------------ input sets
Reqs == 1..MaxReqs
Tracks == {"t1", "t2"}
\* the version types the upload route accepts
VersionTypes == {"STEREO", "ATMOS", "REFERENCE"}
VersionIds == 1..MaxUploads
\* the uploads clients send, as <<trackId, versionType, original name>>
\* (the name is path.parse(file.name).name): a normalized type under two
\* names, a pass-through type and a copied type
UploadInputs ==
  {<<"t1", "STEREO", "mix">>, <<"t1", "STEREO", "alt">>, <<"t1", "ATMOS", "mix">>,
   <<"t2", "REFERENCE", "mix">>}

\* the user of a request's session: the AuthUser { id, role } of the
\* session_token cookie, or no user
NoUser == [id |-> "none", role |-> "none"]
Requesters ==
  {[id |-> "client1", role |-> "CLIENT"], [id |-> "client2", role |-> "CLIENT"],
   [id |-> "engineer1", role |-> "ENGINEER"], NoUser}
\* Project.userId of the project of each track
ProjectUserId == [t \in Tracks |-> "client1"]
\* the client who owns the projects
OwningClient == [id |-> "client1", role |-> "CLIENT"]

NoPath == <<"none", "none", "none", 0>>
NoVersion ==
  [id |-> 0, trackId |-> "none", versionType |-> "none", versionNumber |-> 0,
   isActive |-> FALSE, filePath |-> NoPath, isNormalized |-> FALSE,
   lufsLevel |-> "null"]

VARIABLES
  versions,   \* the AudioVersion table: a set of rows
  comments,   \* the Comment table: rows [id, audioVersionId]
  files,      \* the upload directory: path -> content of the file there
  deleted,    \* history: rows removed by audioVersion.delete (isActive
              \* cleared)
  nextId,     \* the next fresh upload / version id
  req,        \* the requests in flight: req[r] is the request's position
              \* and its local variables
  stream,     \* the stream GET request in flight: its position, its local
              \* variables and its response
  catalog,    \* the Project and Track tables: whether the project row
              \* exists, and the ids of the track rows
  call        \* a call of a function of the audio library or of the
              \* validation of the upload route: its arguments and result

vars == <<versions, comments, files, deleted, nextId, req, stream, catalog, call>>

\* ------------------------------------------------------------ filesystem
\* `${originalName}_${versionType}${versionSuffix}${ext}` under the track's
\* upload directory; the suffix is empty when the version number is 1
VersionedPath(trackId, versionType, name, n) == <<trackId, versionType, name, n>>
\* `${originalName}_${versionType}${ext}`: the path normalization writes to
FilePath(trackId, versionType, name) == VersionedPath(trackId, versionType, name, 1)
\* `temp_${Date.now()}${ext}`
TempPath(trackId, u) == <<trackId, "temp", "temp", u>>

FileExists(f, p) == p \in DOMAIN f
WriteFile(f, p, c) == [q \in (DOMAIN f) \cup {p} |-> IF q = p THEN c ELSE f[q]]
Unlink(f, p) == [q \in (DOMAIN f) \ {p} |-> f[q]]
\* fs.rename(from, to) of an existing file
Rename(f, from, to) == IF from = to THEN f ELSE Unlink(WriteFile(f, to, f[from]), from)

\* content of a stored file: the upload it comes from and what was done to
\* the bytes: "raw" (as uploaded), "normalized" (complete ffmpeg output) or
\* "partial" (output of an ffmpeg run that has not, or not successfully, ended)
Content(u, form) == [upload |-> u, form |-> form]

\* versionType.toLowerCase()
ToLowerCase(versionType) ==
  CASE versionType = "STEREO" -> "stereo"
    [] versionType = "ATMOS" -> "atmos"
    [] versionType = "REFERENCE" -> "reference"
    [] versionType = ".WAV" -> ".wav"
    [] versionType = ".BIN" -> ".bin"
    [] OTHER -> versionType

\* the file name of a path: `temp_${Date.now()}${ext}` or
\* `${originalName}_${versionType.toLowerCase()}${versionSuffix}${ext}` with
\* versionSuffix = nextVersionNumber > 1 ? `_v${nextVersionNumber}` : ''
FileName(p) ==
  IF p[2] = "temp"
    THEN "temp_" \o ToString(p[4]) \o ".wav"
    ELSE p[3] \o "_" \o ToLowerCase(p[2])
           \o (IF p[4] > 1 THEN "_v" \o ToString(p[4]) ELSE "") \o ".wav"

\* the directory of the uploads, as the sequence of its components: what
\* path.join(process.cwd(), 'uploads') and AUDIO_FILES_BASE_DIR name
BaseDir == <<"app", "uploads">>

\* path.join(uploadDir, fileName); the directories between 'uploads' and
\* the track (projects, projectId, artistSlug) are folded into the track's
AbsolutePath(p) == BaseDir \o <<p[1], FileName(p)>>

\* a file of the host next to the upload directory (the application's .env)
HostFiles == (<<"app", ".env">> :> Content(0, "raw"))

\* the contents found at an absolute path: in the upload directory or
\* elsewhere on the host
FileAt(f, abs) ==
  {f[p] : p \in {q \in DOMAIN f : AbsolutePath(q) = abs}}
    \cup {HostFiles[a] : a \in {b \in DOMAIN HostFiles : b = abs}}

\* stats.size of a file: the uploaded bytes, the bytes ffmpeg makes of them,
\* or the one byte an unfinished ffmpeg run has written so far
Size(c) ==
  CASE c.form = "raw" -> MaxFileSize
    [] c.form = "normalized" -> MaxFileSize - 1
    [] OTHER -> 1

\* the bytes fs.readFile returns, each byte told apart by its file and offset
FileBytes(c) == [i \in 1..Size(c) |-> <<c.upload, c.form, i - 1>>]

\* ------------------------------------------------------------- database
\* where: { trackId, versionType }
SameType(vs, trackId, versionType) ==
  {v \in vs : v.trackId = trackId /\ v.versionType = versionType}

\* a findFirst that orders by versionNumber ascending
LatestVersions_Asc(vs, trackId, versionType) ==
  {v \in {x \in vs : x.trackId = trackId /\ x.versionType = versionType} :
     \A w \in {x \in vs : x.trackId = trackId /\ x.versionType = versionType} :
       v.versionNumber <= w.versionNumber}

\* findFirst({ where: { trackId, versionType }, orderBy: { versionNumber: 'desc' } }):
\* the rows the database may return (any row carrying the largest number)
LatestVersions(vs, trackId, versionType) ==
  {v \in SameType(vs, trackId, versionType) :
     \A w \in SameType(vs, trackId, versionType) : w.versionNumber <= v.versionNumber}

\* a deactivation that leaves the rows as they are
DeactivateAll_Skipped(vs, trackId, versionType) == vs

\* a deactivation whose where clause lacks the versionType
DeactivateAll_AnyType(vs, trackId, versionType) ==
  {IF v.trackId = trackId THEN [v EXCEPT !.isActive = FALSE] ELSE v : v \in vs}

\* updateMany({ where: { trackId, versionType }, data: { isActive: false } })
DeactivateAll(vs, trackId, versionType) ==
  {IF v.trackId = trackId /\ v.versionType = versionType
     THEN [v EXCEPT !.isActive = FALSE] ELSE v : v \in vs}

\* update({ where: { id }, data: { isActive: true } }) of an existing row
SetActive(vs, id) ==
  {IF v.id = id THEN [v EXCEPT !.isActive = TRUE] ELSE v : v \in vs}

\* findUnique({ where: { id } }): the row, or no row
FindUnique(vs, id) == {v \in vs : v.id = id}
\* the value findUnique resolves to (NoVersion stands for null)
RowOrNull(rows) == IF rows = {} THEN NoVersion ELSE CHOOSE v \in rows : TRUE

\* a check that lacks the test for null
NotOfTrack_NoNull(version, trackId) ==
  version # NoVersion /\ version.trackId # trackId

\* !version || version.trackId !== trackId
NotOfTrack(version, trackId) == version = NoVersion \/ version.trackId # trackId

\* a check against an empty list
OnlyVersion_Zero(sameTypeVersions) == Cardinality(sameTypeVersions) = 0

\* sameTypeVersions.length === 1
OnlyVersion(sameTypeVersions) == Cardinality(sameTypeVersions) = 1

\* -------------------------------------------------------------- requests
IdleReq ==
  [op |-> "none", pc |-> "idle", trackId |-> "none", versionType |-> "none",
   name |-> "none", versionId |-> 0, nextVersionNumber |-> 0,
   found |-> NoVersion, latestId |-> 0, status |-> 0, user |-> NoUser,
   details |-> "none"]

\* a request that has its response: the status code, the id of the
\* audioVersion the request was about and the id of the version a delete
\* has promoted
Finished(q, code) ==
  [IdleReq EXCEPT !.op = q.op, !.pc = "done", !.status = code,
                  !.versionId = q.versionId, !.latestId = q.latestId]

InFlight(r) == req[r].pc \notin {"idle", "done"}
Quiescent == \A r \in Reqs : ~InFlight(r)
AllIdle == \A r \in Reqs : req[r].pc = "idle"

\* the project with its two tracks
AllRows == [project |-> TRUE, tracks |-> Tracks]

\* no call
NoCall == [fn |-> "none", pc |-> "none", args |-> <<>>, result |-> <<>>]

\* no stream request: the local variables and the response of the handler
NoContent == Content(0, "none")

IdleStream ==
  [pc |-> "idle", absoluteFilePath |-> <<>>, fileSize |-> 0, range |-> <<>>,
   status |-> 0, contentRange |-> <<>>, contentLength |-> 0, body |-> <<>>,
   served |-> NoContent]

Init ==
  /\ versions = {}
  /\ comments = {}
  /\ files = <<>>
  /\ deleted = {}
  /\ nextId = 1
  /\ req = [r \in Reqs |-> IdleReq]
  /\ stream = IdleStream
  /\ catalog = AllRows
  /\ call = NoCall

\* ---------------------------------------------------------------- upload
\* POST /api/upload/audio up to the write of the temp file: validation, the
\* track lookup, mkdir and fs.writeFile(tempPath, buffer)
StartUpload(r, trackId, versionType, name) ==
  /\ req[r].pc = "idle"
  /\ versionType \in VersionTypes
  /\ trackId \in catalog.tracks
  /\ nextId <= MaxUploads
  /\ req' = [req EXCEPT ![r] =
               [IdleReq EXCEPT !.op = "upload", !.pc = "up_norm",
                               !.trackId = trackId, !.versionType = versionType,
                               !.name = name, !.versionId = nextId]]
  /\ files' = WriteFile(files, TempPath(trackId, nextId), Content(nextId, "raw"))
  /\ nextId' = nextId + 1
  /\ UNCHANGED <<versions, comments, deleted, stream, catalog, call>>

\* the version type is not one of ['STEREO', 'ATMOS', 'REFERENCE']: 400
\* 'Invalid version type'
UploadInvalidType(r, trackId, versionType, name) ==
  /\ req[r].pc = "idle"
  /\ versionType \notin VersionTypes
  /\ req' = [req EXCEPT ![r] =
               [IdleReq EXCEPT !.op = "upload", !.pc = "done", !.status = 400,
                               !.versionType = versionType]]
  /\ UNCHANGED <<versions, comments, files, deleted, nextId, stream, catalog, call>>

\* fs.writeFile(tempPath, buffer) throws before a file is there (the
\* directory could not be made, which the route only logs); the outer catch
\* answers 500
UploadWriteFail(r, trackId, versionType, name) ==
  /\ req[r].pc = "idle"
  /\ versionType \in VersionTypes
  /\ req' = [req EXCEPT ![r] =
               [IdleReq EXCEPT !.op = "upload", !.pc = "done", !.status = 500]]
  /\ UNCHANGED <<versions, comments, files, deleted, nextId, stream, catalog, call>>

\* a route that goes on after a failed normalization
UploadNormalizeFail_Ignored(r) ==
  /\ req[r].pc \in {"up_norm", "up_ffmpeg"}
  /\ req[r].versionType # "ATMOS"
  /\ files' = Unlink(files, TempPath(req[r].trackId, req[r].versionId))
  /\ req' = [req EXCEPT ![r].pc = "up_find"]
  /\ UNCHANGED <<versions, comments, deleted, nextId, stream, catalog, call>>

\* versionType === 'ATMOS': fs.rename(tempPath, filePath), no normalization
UploadMoveAtmos(r) ==
  LET q == req[r] IN
  /\ q.pc = "up_norm"
  /\ q.versionType = "ATMOS"
  /\ files' = Rename(files, TempPath(q.trackId, q.versionId),
                     FilePath(q.trackId, q.versionType, q.name))
  /\ req' = [req EXCEPT ![r].pc = "up_find"]
  /\ UNCHANGED <<versions, comments, deleted, nextId, stream, catalog, call>>

\* a REFERENCE upload that is processed like a STEREO upload
UploadCopyReference_Normalized(r) ==
  /\ req[r].pc = "up_norm"
  /\ req[r].versionType = "REFERENCE"
  /\ files' = Unlink(WriteFile(files, FilePath(req[r].trackId, req[r].versionType,
                                               req[r].name),
                               Content(req[r].versionId, "normalized")),
                     TempPath(req[r].trackId, req[r].versionId))
  /\ req' = [req EXCEPT ![r].pc = "up_find"]
  /\ UNCHANGED <<versions, comments, deleted, nextId, stream, catalog, call>>

\* normalizeAudioFile for REFERENCE: analysis succeeds, fs.copyFile(input,
\* output); then fs.unlink(tempPath)
UploadCopyReference(r) ==
  LET q == req[r] IN
  /\ q.pc = "up_norm"
  /\ q.versionType = "REFERENCE"
  /\ files' = Unlink(WriteFile(files, FilePath(q.trackId, q.versionType, q.name),
                               files[TempPath(q.trackId, q.versionId)]),
                     TempPath(q.trackId, q.versionId))
  /\ req' = [req EXCEPT ![r].pc = "up_find"]
  /\ UNCHANGED <<versions, comments, deleted, nextId, stream, catalog, call>>

\* normalizeAudioFile for the other types: analysis succeeds and ffmpeg is
\* started on the output path.  ffmpeg is run without -y, so it starts
\* writing only when no file is at the output path.
UploadFfmpegStart(r) ==
  LET q == req[r]
      out == FilePath(q.trackId, q.versionType, q.name) IN
  /\ q.pc = "up_norm"
  /\ q.versionType \notin {"ATMOS", "REFERENCE"}
  /\ ~FileExists(files, out)
  /\ files' = WriteFile(files, out, Content(q.versionId, "partial"))
  /\ req' = [req EXCEPT ![r].pc = "up_ffmpeg"]
  /\ UNCHANGED <<versions, comments, deleted, nextId, stream, catalog, call>>

\* ffmpeg exits with code 0 and the analysis of the output succeeds; then
\* fs.unlink(tempPath)
UploadFfmpegDone(r) ==
  LET q == req[r]
      out == FilePath(q.trackId, q.versionType, q.name) IN
  /\ q.pc = "up_ffmpeg"
  /\ files' = Unlink(WriteFile(files, out, Content(q.versionId, "normalized")),
                     TempPath(q.trackId, q.versionId))
  /\ req' = [req EXCEPT ![r].pc = "up_find"]
  /\ UNCHANGED <<versions, comments, deleted, nextId, stream, catalog, call>>

\* error.message of what normalizeAudioFile has caught: `ffprobe failed:
\* ${stderr}`, 'No audio stream found', `FFmpeg failed: ${stderr}`
ErrorMessage == "error.message"

\* normalizeAudioFile returns success: false (the analysis of the input
\* fails, ffmpeg refuses to start or exits non-zero, or the analysis of the
\* output fails); the files are left as the failed tool left them, the temp
\* file is unlinked and the response is 500 with { error: 'Audio
\* normalization failed', details: normResult.error }
UploadNormalizeFail(r) ==
  LET q == req[r] IN
  /\ q.pc \in {"up_norm", "up_ffmpeg"}
  /\ q.versionType # "ATMOS"
  /\ files' = Unlink(files, TempPath(q.trackId, q.versionId))
  /\ req' = [req EXCEPT ![r] = [Finished(q, 500) EXCEPT !.details = ErrorMessage]]
  /\ UNCHANGED <<versions, comments, deleted, nextId, stream, catalog, call>>

\* latestVersion = findFirst(... orderBy versionNumber desc);
\* nextVersionNumber = (latestVersion?.versionNumber || 0) + 1
UploadFindLatest(r) ==
  LET q == req[r]
      latest == LatestVersions(versions, q.trackId, q.versionType) IN
  /\ q.pc = "up_find"
  /\ req' = [req EXCEPT ![r].pc = "up_deact",
                        ![r].nextVersionNumber =
                           IF latest = {} THEN 1
                           ELSE (CHOOSE v \in latest : TRUE).versionNumber + 1]
  /\ UNCHANGED <<versions, comments, files, deleted, nextId, stream, catalog, call>>

\* updateMany: deactivate all existing versions of this type
UploadDeactivate(r) ==
  LET q == req[r] IN
  /\ q.pc = "up_deact"
  /\ versions' = DeactivateAll(versions, q.trackId, q.versionType)
  /\ req' = [req EXCEPT ![r].pc = "up_rename"]
  /\ UNCHANGED <<comments, files, deleted, nextId, stream, catalog, call>>

\* fs.rename(filePath, versionedFilePath)
UploadRename(r) ==
  LET q == req[r]
      from == FilePath(q.trackId, q.versionType, q.name)
      to == VersionedPath(q.trackId, q.versionType, q.name, q.nextVersionNumber) IN
  /\ q.pc = "up_rename"
  /\ IF FileExists(files, from)
       THEN /\ files' = Rename(files, from, to)
            /\ req' = [req EXCEPT ![r].pc = "up_create"]
       ELSE \* ENOENT: caught by the outer try, 500
            /\ files' = files
            /\ req' = [req EXCEPT ![r] = Finished(q, 500)]
  /\ UNCHANGED <<versions, comments, deleted, nextId, stream, catalog, call>>

\* isNormalized: versionType === 'ATMOS' ? false : true
IsNormalized(versionType) == IF versionType = "ATMOS" THEN FALSE ELSE TRUE

\* lufsLevel: versionType === 'ATMOS' ? null : normResult.analysis.originalLufs
\* ?? null, where the analysis of a successful normalization has measured
\* the loudness
LufsLevel(versionType) == IF versionType = "ATMOS" THEN "null" ELSE "measured"

\* audioVersion.create({ data: { ..., versionNumber: nextVersionNumber,
\* isActive: true } }) and the success response
UploadCreate(r) ==
  LET q == req[r] IN
  /\ q.pc = "up_create"
  /\ versions' = versions \cup
       {[id |-> q.versionId, trackId |-> q.trackId, versionType |-> q.versionType,
         versionNumber |-> q.nextVersionNumber, isActive |-> TRUE,
         filePath |-> VersionedPath(q.trackId, q.versionType, q.name,
                                    q.nextVersionNumber),
         isNormalized |-> IsNormalized(q.versionType),
         lufsLevel |-> LufsLevel(q.versionType)]}
  /\ req' = [req EXCEPT ![r] = Finished(q, 200)]
  /\ UNCHANGED <<comments, files, deleted, nextId, stream, catalog, call>>

\* -------------------------------------------------------------- activate
\* PUT .../versions/[versionId]/activate: findUnique and the 404 check
ActivateFind(r, trackId, versionId) ==
  LET versionToActivate == RowOrNull(FindUnique(versions, versionId))
      q == [IdleReq EXCEPT !.op = "activate", !.trackId = trackId,
                           !.versionId = versionId] IN
  /\ req[r].pc = "idle"
  /\ IF NotOfTrack(versionToActivate, trackId)
       THEN req' = [req EXCEPT ![r] = Finished(q, 404)]
       ELSE req' = [req EXCEPT ![r] =
                      [q EXCEPT !.pc = "act_deact",
                                !.found = versionToActivate]]
  /\ UNCHANGED <<versions, comments, files, deleted, nextId, stream, catalog, call>>

\* updateMany: deactivate all versions of the same type
ActivateDeactivate(r) ==
  LET q == req[r] IN
  /\ q.pc = "act_deact"
  /\ versions' = DeactivateAll(versions, q.trackId, q.found.versionType)
  /\ req' = [req EXCEPT ![r].pc = "act_update"]
  /\ UNCHANGED <<comments, files, deleted, nextId, stream, catalog, call>>

\* update({ where: { id: versionId }, data: { isActive: true } }); it throws
\* when the row is gone, which the catch turns into a 500
ActivateUpdate(r) ==
  LET q == req[r] IN
  /\ q.pc = "act_update"
  /\ IF FindUnique(versions, q.versionId) # {}
       THEN /\ versions' = SetActive(versions, q.versionId)
            /\ req' = [req EXCEPT ![r] = Finished(q, 200)]
       ELSE /\ versions' = versions
            /\ req' = [req EXCEPT ![r] = Finished(q, 500)]
  /\ UNCHANGED <<comments, files, deleted, nextId, stream, catalog, call>>

\* ---------------------------------------------------------------- delete
\* DELETE .../versions/[versionId]: findUnique and the 404 check; the
\* handler reads the params only, never the session of the request, so the
\* user is carried along without being looked at
DeleteFind(r, user, trackId, versionId) ==
  LET versionToDelete == RowOrNull(FindUnique(versions, versionId))
      q == [IdleReq EXCEPT !.op = "delete", !.trackId = trackId,
                           !.versionId = versionId, !.user = user] IN
  /\ req[r].pc = "idle"
  /\ IF NotOfTrack(versionToDelete, trackId)
       THEN req' = [req EXCEPT ![r] = Finished(q, 404)]
       ELSE req' = [req EXCEPT ![r] =
                      [q EXCEPT !.pc = "del_count",
                                !.found = versionToDelete]]
  /\ UNCHANGED <<versions, comments, files, deleted, nextId, stream, catalog, call>>

\* sameTypeVersions = findMany(...); length === 1 is answered with 400
DeleteCount(r) ==
  LET q == req[r]
      sameTypeVersions == SameType(versions, q.trackId, q.found.versionType) IN
  /\ q.pc = "del_count"
  /\ IF OnlyVersion(sameTypeVersions)
       THEN req' = [req EXCEPT ![r] = Finished(q, 400)]
       ELSE req' = [req EXCEPT ![r].pc = "del_comments"]
  /\ UNCHANGED <<versions, comments, files, deleted, nextId, stream, catalog, call>>

\* comment.deleteMany({ where: { audioVersionId: versionId } })
DeleteComments(r) ==
  LET q == req[r] IN
  /\ q.pc = "del_comments"
  /\ comments' = {c \in comments : c.audioVersionId # q.versionId}
  /\ req' = [req EXCEPT ![r].pc = "del_row"]
  /\ UNCHANGED <<versions, files, deleted, nextId, stream, catalog, call>>

\* comment.deleteMany throws because a reply references one of the comments
\* (CommentReply.comment has no cascade; the CommentReply table is not part
\* of the state, so any comment may have a reply); the catch answers 500
DeleteCommentsRefused(r) ==
  LET q == req[r] IN
  /\ q.pc = "del_comments"
  /\ \E c \in comments : c.audioVersionId = q.versionId
  /\ req' = [req EXCEPT ![r] = Finished(q, 500)]
  /\ UNCHANGED <<versions, comments, files, deleted, nextId, stream, catalog, call>>

\* audioVersion.delete({ where: { id: versionId } }); it throws when the row
\* is gone or a comment still references it (Comment.audioVersion has no
\* cascade), which the catch turns into a 500
DeleteRow(r) ==
  LET q == req[r]
      row == FindUnique(versions, q.versionId) IN
  /\ q.pc = "del_row"
  /\ IF row # {} /\ \A c \in comments : c.audioVersionId # q.versionId
       THEN /\ versions' = versions \ row
            /\ deleted' = deleted \cup {[v EXCEPT !.isActive = FALSE] : v \in row}
            /\ req' = [req EXCEPT ![r].pc = "del_file"]
       ELSE /\ versions' = versions
            /\ deleted' = deleted
            /\ req' = [req EXCEPT ![r] = Finished(q, 500)]
  /\ UNCHANGED <<comments, files, nextId, stream, catalog, call>>

\* if (fs.existsSync(fullPath)) fs.unlinkSync(fullPath), errors ignored; then
\* the branch on versionToDelete.isActive
DeleteFile(r) ==
  LET q == req[r] IN
  /\ q.pc = "del_file"
  /\ files' = Unlink(files, q.found.filePath)
  /\ IF q.found.isActive
       THEN req' = [req EXCEPT ![r].pc = "del_latest"]
       ELSE req' = [req EXCEPT ![r] = Finished(q, 200)]
  /\ UNCHANGED <<versions, comments, deleted, nextId, stream, catalog, call>>

\* latestVersion = findFirst(... orderBy versionNumber desc); without a
\* latest version the request is done
DeleteFindLatest(r) ==
  LET q == req[r]
      latest == LatestVersions(versions, q.trackId, q.found.versionType) IN
  /\ q.pc = "del_latest"
  /\ IF latest = {}
       THEN req' = [req EXCEPT ![r] = Finished(q, 200)]
       ELSE \E latestVersion \in latest :
              req' = [req EXCEPT ![r].pc = "del_promote",
                                 ![r].latestId = latestVersion.id]
  /\ UNCHANGED <<versions, comments, files, deleted, nextId, stream, catalog, call>>

\* update({ where: { id: latestVersion.id }, data: { isActive: true } }); it
\* throws when the row is gone, which the catch turns into a 500
DeletePromote(r) ==
  LET q == req[r] IN
  /\ q.pc = "del_promote"
  /\ IF FindUnique(versions, q.latestId) # {}
       THEN /\ versions' = SetActive(versions, q.latestId)
            /\ req' = [req EXCEPT ![r] = Finished(q, 200)]
       ELSE /\ versions' = versions
            /\ req' = [req EXCEPT ![r] = Finished(q, 500)]
  /\ UNCHANGED <<comments, files, deleted, nextId, stream, catalog, call>>

\* --------------------------------------------------------------- comment
\* POST /api/comments of a user with access: the track and the version are
\* looked up and the comment row is created
AddComment(trackId, audioVersionId) ==
  /\ \E v \in versions : v.id = audioVersionId /\ v.trackId = trackId
  /\ \E id \in 1..MaxComments :
       /\ \A c \in comments : c.id # id
       /\ \A other \in 1..MaxComments : (\A c \in comments : c.id # other) => id <= other
       /\ comments' = comments \cup {[id |-> id, audioVersionId |-> audioVersionId]}
  /\ UNCHANGED <<versions, files, deleted, nextId, req, stream, catalog, call>>

\* ---------------------------------------------------------------- stream
\* The pathname of a request is modelled as the sequence of its segments
\* (the pieces between the "/" of the URL); a segment is the sequence of the
\* pieces between its "%2F", so <<"..", ".env">> is the segment "..%2F.env".

\* the path prefix of the route: '/api/audio-stream/'
ApiPrefix == << <<"api">>, <<"audio-stream">> >>

\* req.nextUrl.pathname: the URL parser has removed the dot segments, a
\* segment ".." together with the segment before it
RECURSIVE RemoveDotSegments(_, _)
RemoveDotSegments(acc, segs) ==
  IF segs = <<>> THEN acc
  ELSE IF Head(segs) = <<"..">>
    THEN RemoveDotSegments(IF acc = <<>> THEN acc ELSE SubSeq(acc, 1, Len(acc) - 1),
                           Tail(segs))
    ELSE RemoveDotSegments(acc \o <<Head(segs)>>, Tail(segs))

Pathname(segs) == RemoveDotSegments(<<>>, segs)

\* fullApiPath.startsWith(apiPrefix)
StartsWithPrefix(fullApiPath) ==
  Len(fullApiPath) > Len(ApiPrefix)
    /\ SubSeq(fullApiPath, 1, Len(ApiPrefix)) = ApiPrefix

\* decodeURIComponent(fullApiPath.substring(apiPrefix.length)): every "%2F"
\* becomes a "/", so the result is the sequence of all the pieces
RECURSIVE DecodeURIComponent(_)
DecodeURIComponent(segs) ==
  IF segs = <<>> THEN <<>> ELSE Head(segs) \o DecodeURIComponent(Tail(segs))

RelativeFilePath(fullApiPath) ==
  DecodeURIComponent(SubSeq(fullApiPath, Len(ApiPrefix) + 1, Len(fullApiPath)))

\* path.join normalizes the joined path: a component ".." removes the
\* component before it
RECURSIVE Normalize(_, _)
Normalize(acc, comps) ==
  IF comps = <<>> THEN acc
  ELSE IF Head(comps) = ".."
    THEN Normalize(IF acc = <<>> THEN acc ELSE SubSeq(acc, 1, Len(acc) - 1),
                   Tail(comps))
    ELSE Normalize(acc \o <<Head(comps)>>, Tail(comps))

\* path.join(AUDIO_FILES_BASE_DIR, relativeFilePath)
PathJoin(base, relativeFilePath) == Normalize(<<>>, base \o relativeFilePath)

\* The Range header is modelled as the sequence of its pieces: "bytes=", "-"
\* and decimal digits.  <<>> stands for a request without the header.
Digit == [d \in {"0", "1", "2", "3", "4", "5", "6", "7", "8", "9"} |->
            CASE d = "0" -> 0 [] d = "1" -> 1 [] d = "2" -> 2 [] d = "3" -> 3
              [] d = "4" -> 4 [] d = "5" -> 5 [] d = "6" -> 6 [] d = "7" -> 7
              [] d = "8" -> 8 [] OTHER -> 9]

\* the value JavaScript calls NaN
NaN == -1000000

\* range.replace(/bytes=/, ""): the first "bytes=" is taken out
RECURSIVE ReplaceBytes(_)
ReplaceBytes(range) ==
  IF range = <<>> THEN <<>>
  ELSE IF Head(range) = "bytes=" THEN Tail(range)
  ELSE <<Head(range)>> \o ReplaceBytes(Tail(range))

\* .split("-"): the pieces between the "-", at least one
RECURSIVE Split(_, _)
Split(cur, rest) ==
  IF rest = <<>> THEN <<cur>>
  ELSE IF Head(rest) = "-" THEN <<cur>> \o Split(<<>>, Tail(rest))
  ELSE Split(cur \o <<Head(rest)>>, Tail(rest))

\* parseInt(part, 10): the number of the leading digits, NaN without one
RECURSIVE ParseDigits(_, _)
ParseDigits(acc, part) ==
  IF part = <<>> \/ Head(part) \notin DOMAIN Digit THEN acc
  ELSE ParseDigits(10 * acc + Digit[Head(part)], Tail(part))

ParseInt(part) ==
  IF part = <<>> \/ Head(part) \notin DOMAIN Digit THEN NaN ELSE ParseDigits(0, part)

\* arithmetic of JavaScript numbers
Plus(x, y) == IF x = NaN \/ y = NaN THEN NaN ELSE x + y
Minus(x, y) == IF x = NaN \/ y = NaN THEN NaN ELSE x - y

\* an index of subarray: NaN is 0, a negative index counts from the end,
\* and the result is clamped to the buffer
RelativeIndex(x, len) ==
  IF x = NaN THEN 0
  ELSE IF x < 0 THEN (IF len + x < 0 THEN 0 ELSE len + x)
  ELSE IF x > len THEN len ELSE x

\* fileBuffer.subarray(begin, end): the bytes from begin up to, not
\* including, end
Subarray(fileBuffer, begin, end) ==
  SubSeq(fileBuffer, RelativeIndex(begin, Len(fileBuffer)) + 1,
         RelativeIndex(end, Len(fileBuffer)))

\* an end that is always the last byte of the file
RangeEnd_FileEnd(range, fileSize) == fileSize - 1

\* start and end of the requested range as lines 73 to 82 compute them
RangeStart(range) ==
  IF range = <<>> THEN 0 ELSE ParseInt(Split(<<>>, ReplaceBytes(range))[1])

RangeEnd(range, fileSize) ==
  LET parts == Split(<<>>, ReplaceBytes(range)) IN
  IF range = <<>> THEN fileSize - 1
  ELSE IF Len(parts) >= 2 /\ parts[2] # <<>> THEN ParseInt(parts[2])
  ELSE fileSize - 1

\* GET /api/audio-stream/...: the path is derived from the pathname, joined
\* to the base directory and checked with fs.access
StreamAccess(segs) ==
  LET fullApiPath == Pathname(ApiPrefix \o segs)
      absoluteFilePath == PathJoin(BaseDir, RelativeFilePath(fullApiPath)) IN
  /\ stream.pc = "idle"
  /\ IF ~StartsWithPrefix(fullApiPath)
       THEN stream' = [IdleStream EXCEPT !.pc = "done", !.status = 400]
       ELSE IF FileAt(files, absoluteFilePath) = {}
         THEN stream' = [IdleStream EXCEPT !.pc = "done", !.status = 404]
         ELSE stream' = [IdleStream EXCEPT !.pc = "stat",
                                           !.absoluteFilePath = absoluteFilePath]
  /\ UNCHANGED <<versions, comments, files, deleted, nextId, req, catalog, call>>

\* fs.stat(absoluteFilePath); it throws when the file is gone, which the
\* catch turns into a 500
StreamStat ==
  /\ stream.pc = "stat"
  /\ IF FileAt(files, stream.absoluteFilePath) = {}
       THEN stream' = [IdleStream EXCEPT !.pc = "done", !.status = 500]
       ELSE \E c \in FileAt(files, stream.absoluteFilePath) :
              stream' = [stream EXCEPT !.pc = "read", !.fileSize = Size(c)]
  /\ UNCHANGED <<versions, comments, files, deleted, nextId, req, catalog, call>>

\* the Range header is parsed, fs.readFile(absoluteFilePath) returns the
\* file as it is now, and the response is built; readFile throws when the
\* file is gone (500)
StreamRead(range) ==
  LET start == RangeStart(range)
      end == RangeEnd(range, stream.fileSize) IN
  /\ stream.pc = "read"
  /\ IF FileAt(files, stream.absoluteFilePath) = {}
       THEN stream' = [IdleStream EXCEPT !.pc = "done", !.status = 500]
       ELSE \E c \in FileAt(files, stream.absoluteFilePath) :
              LET chunk == Subarray(FileBytes(c), start, Plus(end, 1)) IN
              stream' =
                [IdleStream EXCEPT
                   !.pc = "done",
                   !.absoluteFilePath = stream.absoluteFilePath,
                   !.fileSize = stream.fileSize,
                   !.range = range,
                   !.status = IF range # <<>> THEN 206 ELSE 200,
                   !.contentRange =
                      IF range # <<>> THEN <<start, end, stream.fileSize>> ELSE <<>>,
                   !.contentLength =
                      IF range # <<>> THEN Plus(Minus(end, start), 1)
                      ELSE stream.fileSize,
                   !.body = chunk,
                   !.served = c]
  /\ UNCHANGED <<versions, comments, files, deleted, nextId, req, catalog, call>>

\* the response has been sent
StreamRespond ==
  /\ stream.pc = "done"
  /\ stream' = IdleStream
  /\ UNCHANGED <<versions, comments, files, deleted, nextId, req, catalog, call>>

\* ------------------------------------------- project and track deletion
\* prisma.track.findFirst finds no track: 404 'Track not found or access
\* denied'
UploadNoTrack(r, trackId, versionType, name) ==
  /\ req[r].pc = "idle"
  /\ versionType \in VersionTypes
  /\ trackId \notin catalog.tracks
  /\ req' = [req EXCEPT ![r] =
               [IdleReq EXCEPT !.op = "upload", !.pc = "done", !.status = 404]]
  /\ UNCHANGED <<versions, comments, files, deleted, nextId, stream, catalog, call>>

\* the id of the project and the slug of its artist
ProjectId == "p1"
ArtistSlug == "artist"

\* process.cwd()
Cwd == <<"app">>

\* uploadDir of the upload route:
\* path.join(process.cwd(), 'uploads', 'projects', projectId, artistSlug, trackId)
UploadDir(trackId) == Cwd \o <<"uploads", "projects", ProjectId, ArtistSlug, trackId>>

\* where the file p is on the disk
StoredAt(p) == UploadDir(p[1]) \o <<FileName(p)>>

\* versionedRelativePath, the filePath column, read as a path of the host:
\* `/uploads/projects/${projectId}/${artistSlug}/${trackId}/${fileName}`
RelativePath(p) == <<"uploads", "projects", ProjectId, ArtistSlug, p[1], FileName(p)>>

\* projectDir of the project route and uploadDir of the track route
ProjectDir == Cwd \o <<"uploads", "projects", ProjectId>>
TrackDir(id) == Cwd \o <<"uploads", "projects", ProjectId, id>>

IsUnder(dir, abs) == Len(dir) <= Len(abs) /\ SubSeq(abs, 1, Len(dir)) = dir

\* fs.rm(dir, { recursive: true, force: true }): nothing happens, and nothing
\* is thrown, when dir is not there
RmRecursive(f, dir) == [q \in {p \in DOMAIN f : ~IsUnder(dir, StoredAt(p))} |-> f[q]]

\* if (fs.existsSync(abs)) fs.unlinkSync(abs), for every abs of a set
UnlinkEach(f, abss) == [q \in {p \in DOMAIN f : StoredAt(p) \notin abss} |-> f[q]]

\* the comments that keep the versions vs from being deleted
\* (Comment_audioVersionId_fkey, Comment_trackId_fkey: ON DELETE RESTRICT)
CommentsOn(vs) == {c \in comments : \E v \in vs : c.audioVersionId = v.id}

\* DELETE /api/projects/[id]: findUnique with the tracks and their versions,
\* and the 404 check
ProjectDeleteFind(r) ==
  LET q == [IdleReq EXCEPT !.op = "project_delete"] IN
  /\ req[r].pc = "idle"
  /\ IF ~catalog.project
       THEN req' = [req EXCEPT ![r] = Finished(q, 404)]
       ELSE req' = [req EXCEPT ![r] = [q EXCEPT !.pc = "pdel_rows"]]
  /\ UNCHANGED <<versions, comments, files, deleted, nextId, stream, catalog, call>>

\* the unlink loop over version.filePath, fs.rmSync(projectDir, recursive),
\* then prisma.project.delete, which throws while a track refers to the
\* project (Track_projectId_fkey: ON DELETE RESTRICT); the catch answers 500
ProjectDeleteRows(r) ==
  LET q == req[r]
      unlinked == UnlinkEach(files, {RelativePath(v.filePath) : v \in versions}) IN
  /\ q.pc = "pdel_rows"
  /\ files' = RmRecursive(unlinked, ProjectDir)
  /\ IF catalog.project /\ catalog.tracks = {}
       THEN /\ catalog' = [catalog EXCEPT !.project = FALSE]
            /\ req' = [req EXCEPT ![r] = Finished(q, 200)]
       ELSE /\ catalog' = catalog
            /\ req' = [req EXCEPT ![r] = Finished(q, 500)]
  /\ UNCHANGED <<versions, comments, deleted, nextId, stream, call>>

\* DELETE /api/tracks/[id]: findUnique and the 404 check
TrackDeleteFind(r, id) ==
  LET q == [IdleReq EXCEPT !.op = "track_delete", !.trackId = id] IN
  /\ req[r].pc = "idle"
  /\ IF id \notin catalog.tracks
       THEN req' = [req EXCEPT ![r] = Finished(q, 404)]
       ELSE req' = [req EXCEPT ![r] = [q EXCEPT !.pc = "tdel_rm"]]
  /\ UNCHANGED <<versions, comments, files, deleted, nextId, stream, catalog, call>>

\* await fs.rm(uploadDir, { recursive: true, force: true }) with
\* uploadDir = path.join(process.cwd(), 'uploads', 'projects', projectId, id)
TrackDeleteRm(r) ==
  LET q == req[r] IN
  /\ q.pc = "tdel_rm"
  /\ files' = RmRecursive(files, TrackDir(q.trackId))
  /\ req' = [req EXCEPT ![r].pc = "tdel_row"]
  /\ UNCHANGED <<versions, comments, deleted, nextId, stream, catalog, call>>

\* prisma.track.delete: the versions of the track go with it
\* (AudioVersion_trackId_fkey: ON DELETE CASCADE) unless a comment refers
\* to the track or to one of them, and then it throws; the catch answers 500
TrackDeleteRow(r) ==
  LET q == req[r]
      rows == {v \in versions : v.trackId = q.trackId} IN
  /\ q.pc = "tdel_row"
  /\ IF q.trackId \in catalog.tracks /\ CommentsOn(rows) = {}
       THEN /\ catalog' = [catalog EXCEPT !.tracks = @ \ {q.trackId}]
            /\ versions' = versions \ rows
            /\ deleted' = deleted \cup {[v EXCEPT !.isActive = FALSE] : v \in rows}
            /\ req' = [req EXCEPT ![r] = Finished(q, 200)]
       ELSE /\ UNCHANGED <<catalog, versions, deleted>>
            /\ req' = [req EXCEPT ![r] = Finished(q, 500)]
  /\ UNCHANGED <<comments, files, nextId, stream, call>>

\* ------------------------------------------- validation, audio library
\* a call with its arguments, before it returns
Called(fn, args) == [fn |-> fn, pc |-> "called", args |-> args, result |-> <<>>]

Returned(c, result) == [c EXCEPT !.pc = "returned", !.result = result]

ALLOWED_TYPES ==
  {"audio/wav", "audio/mpeg", "audio/mp3", "audio/flac", "audio/aiff",
   "application/octet-stream"}

\* allowedExtensions, with '.bin' and '.wav' pushed for ATMOS
AllowedExtensions(versionType) ==
  {".wav", ".mp3", ".flac", ".aiff"}
    \cup (IF versionType = "ATMOS" THEN {".bin", ".wav"} ELSE {})

\* the file type check of the upload route on file.type and on the
\* extension of file.name: the response it returns, or no response when the
\* route goes on to the next check
ValidateFileType(file, versionType) ==
  LET fileExt == ToLowerCase(file.ext) IN
  IF file.type \notin ALLOWED_TYPES /\ fileExt \notin AllowedExtensions(versionType)
    THEN [status |-> 400,
          error |-> IF versionType = "ATMOS"
                      THEN "Invalid file type. Only BIN or WAV files are allowed for Atmos."
                      ELSE "Invalid file type. Allowed: WAV, MP3, FLAC, AIFF"]
    ELSE [status |-> 0, error |-> "none"]

\* the validation has run on the arguments of the call
Validate ==
  /\ call.fn = "validate" /\ call.pc = "called"
  /\ call' = Returned(call, ValidateFileType(call.args.file, call.args.versionType))
  /\ UNCHANGED <<versions, comments, files, deleted, nextId, req, stream, catalog>>

\* a promise of the audio library, settled
Resolve(value) == [settled |-> "resolved", value |-> value, error |-> "none"]
Reject(error) == [settled |-> "rejected", value |-> <<>>, error |-> error]

\* the labelled measurements of the ebur128 filter
LoudnessFields ==
  {"Integrated loudness:", "True peak:", "Loudness range:", "Momentary max:"}

\* the number parsed from the line of stderr that holds the label, or the
\* initial value 0 of the variable when no line holds the label with a number
Measured(stderr, label) == IF stderr[label] = <<>> THEN 0 ELSE stderr[label][1]

\* analyzeLoudness: the close handler takes no exit code
analyzeLoudness(ffmpeg) ==
  Resolve([originalLufs |-> Measured(ffmpeg.stderr, "Integrated loudness:"),
           peakLevel |-> Measured(ffmpeg.stderr, "Momentary max:"),
           truePeak |-> Measured(ffmpeg.stderr, "True peak:"),
           dynamicRange |-> Measured(ffmpeg.stderr, "Loudness range:")])

\* analyzeAudioFile: the close handler of ffprobe, which awaits
\* analyzeLoudness
analyzeAudioFile(ffprobe, ffmpeg) ==
  IF ffprobe.code # 0 THEN Reject("ffprobe failed")
  ELSE IF ~ffprobe.audioStream THEN Reject("No audio stream found")
  ELSE analyzeLoudness(ffmpeg)

\* the analysis has run on the outcome of its two subprocesses
Analyze ==
  /\ call.fn = "analyzeAudioFile" /\ call.pc = "called"
  /\ call' = Returned(call, analyzeAudioFile(call.args.ffprobe, call.args.ffmpeg))
  /\ UNCHANGED <<versions, comments, files, deleted, nextId, req, stream, catalog>>

\* samples.slice(start, end) for 0 <= start <= end
Slice(samples, start, end) ==
  LET to == IF end > Len(samples) THEN Len(samples) ELSE end IN
  IF start >= to THEN <<>> ELSE SubSeq(samples, start + 1, to)

\* slice.reduce((sum, sample) => sum + sample * sample, 0)
RECURSIVE SumOfSquares(_)
SumOfSquares(slice) ==
  IF slice = <<>> THEN 0
  ELSE SumOfSquares(Tail(slice)) + Head(slice) * Head(slice)

\* Math.sqrt(sum / length), a number kept as the pair of sum and length;
\* with length 0 it is Math.sqrt(0 / 0), which is NaN
Rms(slice) == [sum |-> SumOfSquares(slice), length |-> Len(slice)]

IsNaN(rms) == rms.length = 0

\* the downsampling loop of generateWaveformData
Downsample(samples, width) ==
  LET samplesPerPixel == Len(samples) \div width IN
  [i \in 1..width |->
     Rms(Slice(samples, (i - 1) * samplesPerPixel,
               (i - 1) * samplesPerPixel + samplesPerPixel))]

\* generateWaveformData: the close handler of ffmpeg
generateWaveformData(ffmpeg, width) ==
  IF ffmpeg.code # 0 THEN Reject("Failed to generate waveform data")
  ELSE Resolve(Downsample(ffmpeg.samples, width))

\* the waveform has been made from the output of ffmpeg
Waveform ==
  /\ call.fn = "generateWaveformData" /\ call.pc = "called"
  /\ call' = Returned(call, generateWaveformData(call.args.ffmpeg, call.args.width))
  /\ UNCHANGED <<versions, comments, files, deleted, nextId, req, stream, catalog>>

\* --------------------------------------------------------- specifications
\* a client sends a new request
Upload(r) == \E u \in UploadInputs : StartUpload(r, u[1], u[2], u[3])
Activate(r) == \E t \in Tracks, id \in VersionIds : ActivateFind(r, t, id)
Delete(r) == \E t \in Tracks, id \in VersionIds : DeleteFind(r, OwningClient, t, id)

\* a request in flight runs up to its next await
Step(r) ==
  \/ UploadMoveAtmos(r)
  \/ UploadCopyReference(r)
  \/ UploadFfmpegStart(r)
  \/ UploadFfmpegDone(r)
  \/ UploadNormalizeFail(r)
  \/ UploadFindLatest(r)
  \/ UploadDeactivate(r)
  \/ UploadRename(r)
  \/ UploadCreate(r)
  \/ ActivateDeactivate(r)
  \/ ActivateUpdate(r)
  \/ DeleteCount(r)
  \/ DeleteComments(r)
  \/ DeleteCommentsRefused(r)
  \/ DeleteRow(r)
  \/ DeleteFile(r)
  \/ DeleteFindLatest(r)
  \/ DeletePromote(r)

\* the response has been sent; the request is over
Respond(r) ==
  /\ req[r].pc = "done"
  /\ req' = [req EXCEPT ![r] = IdleReq]
  /\ UNCHANGED <<versions, comments, files, deleted, nextId, stream, catalog, call>>

Comment == \E t \in Tracks, id \in VersionIds : AddComment(t, id)

\* the slot a new request takes: identities of requests do not matter
FreeSlot(r) == req[r].pc = "idle" /\ \A s \in Reqs : s < r => req[s].pc # "idle"

\* requests of different clients interleave between their awaits
Next ==
  \/ \E r \in Reqs : FreeSlot(r) /\ nextId <= MaxConcUploads /\ Upload(r)
  \/ \E r \in Reqs : FreeSlot(r) /\ Activate(r)
  \/ \E r \in Reqs : FreeSlot(r) /\ Delete(r)
  \/ \E r \in Reqs : Step(r)
  \/ \E r \in Reqs : Respond(r)
  \/ Comment

Spec == Init /\ [][Next]_vars

\* requests run one at a time, each finishing before the next starts
NextSeq ==
  \/ \E r \in Reqs : AllIdle /\ FreeSlot(r) /\ Upload(r)
  \/ \E r \in Reqs : AllIdle /\ FreeSlot(r) /\ Activate(r)
  \/ \E r \in Reqs : AllIdle /\ FreeSlot(r) /\ Delete(r)
  \/ \E r \in Reqs : Step(r)
  \/ \E r \in Reqs : Respond(r)
  \/ AllIdle /\ Comment

SpecSeq == Init /\ [][NextSeq]_vars

\* the decimal digits of a number below 100
Digits(n) ==
  LET d == <<"0", "1", "2", "3", "4", "5", "6", "7", "8", "9">> IN
  IF n < 10 THEN <<d[n + 1]>> ELSE <<d[(n \div 10) + 1], d[(n % 10) + 1]>>

\* the Range headers clients send: none, 'bytes=a-b', 'bytes=a-', 'bytes=-b'
Ranges ==
  {<<>>}
    \cup {<<"bytes=">> \o Digits(a) \o <<"-">> \o Digits(b) :
            a \in 0..MaxFileSize, b \in 0..MaxFileSize}
    \cup {<<"bytes=">> \o Digits(a) \o <<"-">> : a \in 0..MaxFileSize}
    \cup {<<"bytes=", "-">> \o Digits(b) : b \in 0..MaxFileSize}

\* the paths clients ask for, as the segments after the prefix: the files
\* uploads store, a path through a sibling directory, and paths that climb
\* out of the upload directory with ".." or with "..%2F"
StreamPaths ==
  {<< <<u[1]>>, <<FileName(VersionedPath(u[1], u[2], u[3], n))>> >> :
     u \in UploadInputs, n \in 1..2}
    \cup {<< <<"t1", "..", "t2", "mix_reference.wav">> >>,
          << <<"..">>, <<"..">>, <<".env">> >>,
          << <<"..", ".env">> >>}

\* a delete request of any user, or of nobody
DeleteByAnyone(r) ==
  \E user \in Requesters, t \in Tracks, id \in VersionIds : DeleteFind(r, user, t, id)

\* requests run one at a time; the delete requests come from every user
NextAuth ==
  \/ \E r \in Reqs : AllIdle /\ FreeSlot(r) /\ Upload(r)
  \/ \E r \in Reqs : AllIdle /\ FreeSlot(r) /\ Activate(r)
  \/ \E r \in Reqs : AllIdle /\ FreeSlot(r) /\ DeleteByAnyone(r)
  \/ \E r \in Reqs : Step(r)
  \/ \E r \in Reqs : Respond(r)
  \/ AllIdle /\ Comment

SpecAuth == Init /\ [][NextAuth]_vars

\* uploads the route refuses or cannot store: a version type outside the
\* route's list, or a file that cannot be written
InvalidUploadInputs == {<<"t1", "BINAURAL", "mix">>}

UploadRefused(r) ==
  \/ \E u \in InvalidUploadInputs : UploadInvalidType(r, u[1], u[2], u[3])
  \/ \E u \in UploadInputs : UploadWriteFail(r, u[1], u[2], u[3])

StreamGet == \E segs \in StreamPaths : StreamAccess(segs)
StreamStep == StreamStat \/ \E range \in Ranges : StreamRead(range)

\* the response of the stream request, once built, is sent before any other
\* request goes on
Sent == stream.pc # "done"

\* uploads run one at a time while stream requests read the upload directory
NextStream ==
  \/ \E r \in Reqs : Sent /\ AllIdle /\ FreeSlot(r) /\ nextId <= MaxStreamUploads /\ Upload(r)
  \/ \E r \in Reqs : Sent /\ AllIdle /\ FreeSlot(r) /\ UploadRefused(r)
  \/ \E r \in Reqs : Sent /\ Step(r)
  \/ \E r \in Reqs : Sent /\ Respond(r)
  \/ StreamGet
  \/ StreamStep
  \/ StreamRespond

SpecStream == Init /\ [][NextStream]_vars

\* the steps of an upload that wait for the file system or the database
\* only, and the sending of a response; the steps that wait for ffprobe or
\* ffmpeg to exit are not among them
Continue(r) ==
  /\ Sent
  /\ \/ UploadMoveAtmos(r)
     \/ UploadFindLatest(r)
     \/ UploadDeactivate(r)
     \/ UploadRename(r)
     \/ UploadCreate(r)
     \/ Respond(r)

\* SpecStream where the file system, the database and the event loop make
\* every request go on, however many stream responses are sent in between;
\* nothing makes a subprocess exit
SpecLive ==
  /\ Init /\ [][NextStream]_vars
  /\ \A r \in Reqs : SF_vars(Continue(r))
  /\ WF_vars(StreamRespond)

\* an upload in flight runs up to its next await
UploadStep(r) ==
  \/ UploadMoveAtmos(r)
  \/ UploadCopyReference(r)
  \/ UploadFfmpegStart(r)
  \/ UploadFfmpegDone(r)
  \/ UploadNormalizeFail(r)
  \/ UploadFindLatest(r)
  \/ UploadDeactivate(r)
  \/ UploadRename(r)
  \/ UploadCreate(r)

\* a delete in flight runs up to its next await; there are no comments
\* whose removal could be refused
DeleteStep(r) ==
  \/ DeleteCount(r)
  \/ DeleteComments(r)
  \/ DeleteRow(r)
  \/ DeleteFile(r)
  \/ DeleteFindLatest(r)
  \/ DeletePromote(r)

\* the requests of one operation that have not been answered yet
Running(op) == {r \in Reqs : req[r].op = op /\ req[r].pc # "idle"}

\* uploads come one at a time and deletes come one at a time, and a delete
\* and an upload interleave between their awaits
NextRace ==
  \/ \E r \in Reqs : FreeSlot(r) /\ Running("upload") = {} /\ Upload(r)
  \/ \E r \in Reqs : FreeSlot(r) /\ Running("delete") = {} /\ Delete(r)
  \/ \E r \in Reqs : UploadStep(r)
  \/ \E r \in Reqs : DeleteStep(r)
  \/ \E r \in Reqs : Respond(r)

SpecRace == Init /\ [][NextRace]_vars

\* the files and version types clients send to the upload route
MimeTypes == {"audio/wav", "audio/mpeg", "application/octet-stream", "text/plain"}
Extensions == {".wav", ".WAV", ".mp3", ".bin", ".BIN", ".txt"}
ValidateInputs ==
  [file : [type : MimeTypes, ext : Extensions], versionType : VersionTypes]

\* the outcomes of ffprobe and of the ebur128 run of ffmpeg: exit codes,
\* whether the file has an audio stream, and for each label the number on
\* its line of stderr, if there is one
ExitCodes == {0, 1}
Levels == {<<>>, <<-14>>}
AnalyzeInputs ==
  [ffprobe : [code : ExitCodes, audioStream : BOOLEAN],
   ffmpeg : [code : ExitCodes, stderr : [LoudnessFields -> Levels]]]

\* the samples ffmpeg decodes, and the widths asked for
RECURSIVE SamplesOfLen(_)
SamplesOfLen(n) ==
  IF n = 0 THEN {<<>>}
  ELSE {Append(s, x) : s \in SamplesOfLen(n - 1), x \in {-1, 0, 2}}
Samples == UNION {SamplesOfLen(n) : n \in 0..MaxSamples}
WaveformInputs ==
  [ffmpeg : [code : ExitCodes, samples : Samples], width : 1..MaxWidth]

\* one call of the validation or of the audio library, on any arguments
InitLib ==
  /\ versions = {}
  /\ comments = {}
  /\ files = <<>>
  /\ deleted = {}
  /\ nextId = 1
  /\ req = [r \in Reqs |-> IdleReq]
  /\ stream = IdleStream
  /\ catalog = AllRows
  /\ \/ \E args \in ValidateInputs : call = Called("validate", args)
     \/ \E args \in AnalyzeInputs : call = Called("analyzeAudioFile", args)
     \/ \E args \in WaveformInputs : call = Called("generateWaveformData", args)

NextLib ==
  \/ Validate
  \/ Analyze
  \/ Waveform

SpecLib == InitLib /\ [][NextLib]_vars

ProjectDelete(r) == ProjectDeleteFind(r)
TrackDelete(r) == \E id \in Tracks : TrackDeleteFind(r, id)
UploadToNoTrack(r) == \E u \in UploadInputs : UploadNoTrack(r, u[1], u[2], u[3])

CascadeStep(r) ==
  \/ ProjectDeleteRows(r)
  \/ TrackDeleteRm(r)
  \/ TrackDeleteRow(r)

\* uploads, comments, track deletes and project deletes, one request at a
\* time
NextCascade ==
  \/ \E r \in Reqs : AllIdle /\ FreeSlot(r) /\ Upload(r)
  \/ \E r \in Reqs : AllIdle /\ FreeSlot(r) /\ UploadToNoTrack(r)
  \/ \E r \in Reqs : AllIdle /\ FreeSlot(r) /\ TrackDelete(r)
  \/ \E r \in Reqs : AllIdle /\ FreeSlot(r) /\ ProjectDelete(r)
  \/ \E r \in Reqs : UploadStep(r)
  \/ \E r \in Reqs : CascadeStep(r)
  \/ \E r \in Reqs : Respond(r)
  \/ AllIdle /\ Comment

SpecCascade == Init /\ [][NextCascade]_vars

\* ------------------------------------------------------------ properties
\* the active versions of a (trackId, versionType) in the table vs
ActiveOf(vs, trackId, versionType) ==
  {v \in SameType(vs, trackId, versionType) : v.isActive}

\* C1: when the requests run one at a time, every (trackId, versionType) has
\* at most one version with isActive = true, whatever uploads, activations
\* and deletions have run
C1_AtMostOneActive ==
  \A t \in Tracks, vt \in VersionTypes :
    Cardinality(ActiveOf(versions, t, vt)) <= 1

\* an upload, an activation of an older version and a deletion have run on a
\* key that still has two versions, one of them active
C1_Witness ==
  /\ AllIdle
  /\ \E t \in Tracks, vt \in VersionTypes :
       /\ Cardinality(SameType(versions, t, vt)) = 2
       /\ Cardinality(ActiveOf(versions, t, vt)) = 1
       /\ \E d \in deleted : d.trackId = t /\ d.versionType = vt
       /\ \E v \in ActiveOf(versions, t, vt), w \in SameType(versions, t, vt) :
            v.versionNumber < w.versionNumber

\* the requests of kind op that have ended with a success response and are
\* not yet forgotten
Succeeded(op) ==
  {r \in Reqs : req[r].pc = "done" /\ req[r].op = op /\ req[r].status = 200}

\* the row with the id that request r carries, or NoVersion
RowOf(r) == RowOrNull(FindUnique(versions, req[r].versionId))

SameKey(v, w) == v.trackId = w.trackId /\ v.versionType = w.versionType

\* C2: once two uploads to the same (trackId, versionType) have both ended
\* with success, however their steps interleaved, exactly one version of
\* the key is active
C2_ConcurrentUploadsOneActive ==
  \A r1 \in Succeeded("upload"), r2 \in Succeeded("upload") :
    (Quiescent /\ r1 # r2 /\ RowOf(r1) # NoVersion /\ RowOf(r2) # NoVersion
       /\ SameKey(RowOf(r1), RowOf(r2)))
    => Cardinality(ActiveOf(versions, RowOf(r1).trackId, RowOf(r1).versionType)) = 1

\* C3: when all the versions of a key come from uploads that have just ended
\* with success and none was deleted, their versionNumbers are exactly 1..N
C3_ConcurrentUploadsNumbering ==
  \A t \in Tracks, vt \in VersionTypes :
    LET S == SameType(versions, t, vt) IN
    (Quiescent /\ S # {}
       /\ (\A v \in S : \E r \in Succeeded("upload") : req[r].versionId = v.id)
       /\ (\A d \in deleted : ~(d.trackId = t /\ d.versionType = vt)))
    => {v.versionNumber : v \in S} = 1..Cardinality(S)

\* C4: once two activations of two different versions of the same key have
\* both ended with success, however their steps interleaved, exactly one
\* version of the key is active
C4_ConcurrentActivateOneActive ==
  \A r1 \in Succeeded("activate"), r2 \in Succeeded("activate") :
    (Quiescent /\ req[r1].versionId # req[r2].versionId
       /\ RowOf(r1) # NoVersion /\ RowOf(r2) # NoVersion
       /\ SameKey(RowOf(r1), RowOf(r2)))
    => Cardinality(ActiveOf(versions, RowOf(r1).trackId, RowOf(r1).versionType)) = 1

\* C5: whenever no request is in progress, every key that has a version has
\* exactly one active version, also after requests that ended with an error
C5_ExactlyOneActive ==
  Quiescent =>
    \A t \in Tracks, vt \in VersionTypes :
      SameType(versions, t, vt) # {}
        => Cardinality(ActiveOf(versions, t, vt)) = 1

\* C6: the removal of a version row by a delete request never leaves the
\* (trackId, versionType) of that row without a version
C6_DeleteKeepsAVersion ==
  [][\A r \in Reqs :
       (req[r].pc = "del_row" /\ req'[r].pc = "del_file")
       => SameType(versions', req[r].trackId, req[r].found.versionType) # {}]_vars

\* the tables and the upload directory
store == <<versions, comments, files, deleted>>

\* the versions of a key that carry its largest versionNumber
HighestOf(vs, trackId, versionType) ==
  {v \in vs : /\ v.trackId = trackId /\ v.versionType = versionType
               /\ \A w \in vs : (w.trackId = trackId /\ w.versionType = versionType)
                                   => w.versionNumber <= v.versionNumber}

\* the table vs with the row id made active
WithActive(vs, id) ==
  {IF v.id = id THEN [v EXCEPT !.isActive = TRUE] ELSE v : v \in vs}

\* C7: a delete request for the only version of its (trackId, versionType)
\* is answered with 400 at the sibling count, and neither that step nor the
\* lookup before it changes a version row, a comment or a file
C7_SoleVersionDeleteRefused ==
  [][\A r \in Reqs :
       /\ (req[r].pc = "idle" /\ req'[r].op = "delete") => UNCHANGED store
       /\ (/\ req[r].pc = "del_count"
           /\ Cardinality(SameType(versions, req[r].trackId,
                                    req[r].found.versionType)) = 1)
          => (/\ req'[r].pc = "done" /\ req'[r].status = 400
              /\ UNCHANGED store)]_vars

\* a delete has been refused with 400 while the only version of a key has a
\* comment, its file and its active flag
C7_Witness ==
  \E r \in Reqs :
    /\ req[r].pc = "done" /\ req[r].op = "delete" /\ req[r].status = 400
    /\ \E v \in versions :
         /\ v.id = req[r].versionId
         /\ v.isActive
         /\ SameType(versions, v.trackId, v.versionType) = {v}
         /\ FileExists(files, v.filePath)
         /\ \E c \in comments : c.audioVersionId = v.id

\* C8: a delete that removed an active version and ends with success leaves
\* exactly the version with the highest remaining versionNumber active; no
\* step of a delete of an inactive version changes the active versions of
\* the key
C8_DeletePromotesHighest ==
  [][\A r \in Reqs :
       (req[r].op = "delete" /\ InFlight(r)) =>
         LET t == req[r].trackId
             vt == req[r].found.versionType IN
         /\ ~req[r].found.isActive
              => ActiveOf(versions', t, vt) = ActiveOf(versions, t, vt)
         /\ (req[r].found.isActive /\ req'[r].pc = "done" /\ req'[r].status = 200)
              => /\ ActiveOf(versions', t, vt) = HighestOf(versions', t, vt)
                 /\ Cardinality(ActiveOf(versions', t, vt)) = 1]_vars

\* a delete has removed the active version of a key with two remaining
\* versions and has promoted the higher of them
C8_Witness ==
  \E r \in Succeeded("delete") :
    \E d \in deleted, v \in versions, w \in versions :
      /\ d.id = req[r].versionId
      /\ req[r].latestId = v.id
      /\ SameKey(d, v) /\ SameKey(d, w)
      /\ w.versionNumber < v.versionNumber
      /\ v.isActive /\ ~w.isActive

\* C9: the last step of a successful activate leaves the named version
\* active, every other version of its key inactive and everything else as it
\* was; when the named version was active already, the table before the
\* request and the table after it are both the table in between with that
\* version active, so the request changes nothing
C9_ActivateExactlyTarget ==
  [][\A r \in Reqs :
       LET id == req[r].versionId
           t == req[r].trackId
           vt == req[r].found.versionType IN
       /\ (req[r].pc = "act_deact" /\ req[r].found.isActive)
            => (versions = WithActive(versions', id) /\ UNCHANGED <<comments, files>>)
       /\ (req[r].pc = "act_update" /\ req'[r].pc = "done" /\ req'[r].status = 200)
            => /\ versions' = WithActive(versions, id)
               /\ \E v \in versions' : v.id = id /\ ActiveOf(versions', t, vt) = {v}
               /\ UNCHANGED <<comments, files>>
       /\ (req[r].op = "activate" /\ InFlight(r))
            => \A v \in versions : (v.trackId = t /\ v.versionType = vt) \/ v \in versions']_vars

\* an older version has been activated while a newer one was active
C9_Witness ==
  \E r \in Succeeded("activate") :
    \E v \in versions, w \in versions :
      /\ v.id = req[r].versionId
      /\ SameKey(v, w)
      /\ v.versionNumber < w.versionNumber
      /\ v.isActive /\ ~w.isActive

\* C10: a delete request for a version that an earlier delete has removed
\* ends at its first step with the response 404, which is no server error,
\* and changes nothing
C10_SecondDeleteNotFound ==
  [][\A r \in Reqs :
       (/\ req[r].pc = "idle" /\ req'[r].op = "delete"
        /\ \E d \in deleted : d.id = req'[r].versionId)
       => (/\ req'[r].pc = "done" /\ req'[r].status = 404
           /\ UNCHANGED store)]_vars

\* a second delete of a removed version has been answered with 404
C10_Witness ==
  \E r \in Reqs :
    /\ req[r].pc = "done" /\ req[r].op = "delete" /\ req[r].status = 404
    /\ \E d \in deleted : d.id = req[r].versionId

\* an absolute path lies inside the upload directory
InsideRoot(abs) ==
  Len(abs) > Len(BaseDir) /\ SubSeq(abs, 1, Len(BaseDir)) = BaseDir

\* C11: the absolute path a stream request checks and reads lies inside the
\* upload directory, and no response carries a file from outside of it
C11_StreamStaysInsideRoot ==
  /\ stream.absoluteFilePath # <<>> => InsideRoot(stream.absoluteFilePath)
  /\ \A a \in DOMAIN HostFiles : stream.served # HostFiles[a]

\* the header 'bytes=a-b', and 'bytes=a-' when open is true
RangeHeader(a, b, open) ==
  <<"bytes=">> \o Digits(a) \o <<"-">> \o (IF open THEN <<>> ELSE Digits(b))

\* C12: a stream request with the header 'bytes=a-b' or 'bytes=a-' (b then
\* being S-1), 0 <= a <= b < S, on a file that has S bytes while the request
\* runs is answered 206 with Content-Range a-b/S, Content-Length b-a+1 and
\* the bytes a to b of the file
C12_RangeResponse ==
  [][\A a \in 0..MaxFileSize, b \in 0..MaxFileSize :
       (/\ stream.pc = "read" /\ stream'.pc = "done" /\ stream'.status # 500
        /\ Size(stream'.served) = stream.fileSize
        /\ a <= b /\ b < stream.fileSize
        /\ \/ stream'.range = RangeHeader(a, b, FALSE)
           \/ (b = stream.fileSize - 1 /\ stream'.range = RangeHeader(a, b, TRUE)))
       => (/\ stream'.status = 206
           /\ stream'.contentRange = <<a, b, stream.fileSize>>
           /\ stream'.contentLength = b - a + 1
           /\ Len(stream'.body) = b - a + 1
           /\ \A i \in 1..(b - a + 1) :
                stream'.body[i] = <<stream'.served.upload, stream'.served.form, a + i - 1>>)]_vars

\* a range in the middle of a stored file of three bytes has been served
C12_Witness ==
  /\ stream.pc = "done" /\ stream.status = 206
  /\ stream.range = <<"bytes=", "1", "-", "1">>
  /\ stream.fileSize = 3
  /\ InsideRoot(stream.absoluteFilePath)
  /\ Len(stream.body) = 1

\* C13: as long as a version row exists, the file at its filePath exists and
\* holds the bytes stored by the upload that created the row
C13_VersionFileKept ==
  \A v \in versions :
    /\ FileExists(files, v.filePath)
    /\ files[v.filePath].upload = v.id

\* C14: when the normalization of an upload ends in failure, the output
\* path holds no file or the complete file that was there before the call
C14_NoPartialOutputOnFailure ==
  [][\A r \in Reqs :
       LET out == FilePath(req[r].trackId, req[r].versionType, req[r].name) IN
       (/\ req[r].pc \in {"up_norm", "up_ffmpeg"}
        /\ req'[r].pc = "done" /\ req'[r].status = 500)
       => (FileExists(files', out) => files'[out].form # "partial")]_vars

\* C15: the bytes a stream request returns never come from a file that is
\* still being written
C15_NoPartialFileServed ==
  stream.pc = "done" => stream.served.form # "partial"

\* C16: an upload that fails while its file is written or normalized is
\* answered with an error and leaves the AudioVersion table as it was; no
\* step before the end of the normalization changes the table; and the row
\* an upload creates points to a completely written file of that upload
C16_NormalizeThenPersist ==
  [][\A r \in Reqs :
       /\ (req[r].pc = "idle" /\ req'[r].op = "upload" /\ req'[r].pc = "done")
            => (req'[r].status >= 400 /\ versions' = versions)
       /\ req[r].pc \in {"up_norm", "up_ffmpeg"} => versions' = versions
       /\ (req[r].pc \in {"up_norm", "up_ffmpeg"}
             /\ req'[r].pc \notin {"up_norm", "up_ffmpeg", "up_find"})
            => (req'[r].pc = "done" /\ req'[r].status >= 400)
       /\ req[r].pc = "up_create"
            => \A v \in versions' \ versions :
                 /\ v.id = req[r].versionId
                 /\ FileExists(files, v.filePath)
                 /\ files[v.filePath].upload = v.id
                 /\ files[v.filePath].form \in {"raw", "normalized"}]_vars

\* an upload has failed in ffmpeg, leaving its partial output, while the
\* version of an earlier upload is still active
C16_Witness ==
  \E r \in Reqs :
    /\ req[r].pc = "done" /\ req[r].op = "upload" /\ req[r].status = 500
    /\ \E p \in DOMAIN files :
         files[p].form = "partial" /\ files[p].upload = req[r].versionId
    /\ \E v \in versions : v.isActive /\ v.id < req[r].versionId

\* C17: when an upload of type REFERENCE or ATMOS ends with success, the
\* file at the filePath of its new version holds exactly the uploaded bytes
C17_PassThroughBytes ==
  [][\A r \in Reqs :
       (/\ req[r].pc = "up_create" /\ req[r].versionType \in {"REFERENCE", "ATMOS"}
        /\ req'[r].pc = "done" /\ req'[r].status = 200)
       => \E v \in versions' :
            /\ v.id = req[r].versionId
            /\ v.versionType = req[r].versionType
            /\ FileExists(files', v.filePath)
            /\ files'[v.filePath] = [upload |-> v.id, form |-> "raw"]]_vars

\* a second REFERENCE upload of the same file name has ended with success
C17_Witness ==
  \E r \in Succeeded("upload") :
    /\ RowOf(r).versionType = "REFERENCE"
    /\ RowOf(r).versionNumber = 2
    /\ FileExists(files, RowOf(r).filePath)

\* C18: a version has isNormalized = true only when its type is STEREO or
\* BINAURAL; an ATMOS version has isNormalized = false and no lufsLevel, and
\* a REFERENCE version has isNormalized = false
C18_IsNormalizedOnlyForNormalizable ==
  \A v \in versions :
    /\ v.isNormalized => v.versionType \in {"STEREO", "BINAURAL"}
    /\ v.versionType = "ATMOS" => (~v.isNormalized /\ v.lufsLevel = "null")
    /\ v.versionType = "REFERENCE" => ~v.isNormalized

\* C19: no upload of a valid file with versionType BINAURAL is refused as an
\* invalid version type
C19_BinauralAccepted ==
  \A r \in Reqs :
    ~(/\ req[r].pc = "done" /\ req[r].op = "upload"
      /\ req[r].versionType = "BINAURAL" /\ req[r].status = 400)

\* the users that may delete a version of a track: the client who owns the
\* track's project, engineers and admins
MayDelete(user, trackId) ==
  \/ user.role \in {"ENGINEER", "ADMIN"}
  \/ user.role = "CLIENT" /\ user.id = ProjectUserId[trackId]

\* C20: no step of a delete request of a user who is neither the owning
\* client nor an engineer or admin removes a version, a comment or a file
C20_DeleteOnlyByAuthorized ==
  [][\A r \in Reqs :
       (/\ req[r].op = "delete" /\ InFlight(r)
        /\ ~MayDelete(req[r].user, req[r].trackId))
       => UNCHANGED store]_vars

\* C21: no response of the upload route carries the message of an internal
\* error or the stderr of an external tool
C21_NoDiagnosticsInResponse ==
  \A r \in Reqs :
    (req[r].pc = "done" /\ req[r].op = "upload") => req[r].details = "none"

\* C22: every upload request that has started is answered
C22_UploadEventuallyAnswered ==
  \A r \in Reqs :
    (req[r].op = "upload" /\ InFlight(r)) ~> (req[r].pc = "done")

\* C26: a version of a key has a larger versionNumber than every version of
\* the key that was uploaded before it and has since been deleted
C26_VersionNumberNeverReused ==
  \A v \in versions : \A d \in deleted :
    (SameKey(v, d) /\ v.id > d.id) => v.versionNumber > d.versionNumber

\* C29: a 206 response for a file that has S bytes while the request runs
\* has 0 <= start <= end < S in its Content-Range and a Content-Length equal
\* to the number of bytes in its body
C29_RangeWithinFile ==
  (/\ stream.pc = "done" /\ stream.status = 206
   /\ InsideRoot(stream.absoluteFilePath)
   /\ Size(stream.served) = stream.fileSize)
    => (/\ 0 <= stream.contentRange[1]
        /\ stream.contentRange[1] <= stream.contentRange[2]
        /\ stream.contentRange[2] < stream.fileSize
        /\ stream.contentLength = Len(stream.body))

\* C30: when an upload and a delete have both ended with success, the delete
\* having removed an older version of the upload's key that had the
\* versionNumber and the path the upload's version has, the file of the
\* upload's version exists
C30_NewVersionFileKept ==
  \A r1 \in Succeeded("upload"), r2 \in Succeeded("delete") :
    \A d \in deleted :
      (/\ RowOf(r1) # NoVersion
       /\ d.id = req[r2].versionId
       /\ SameKey(RowOf(r1), d)
       /\ d.id < req[r1].versionId
       /\ d.versionNumber = RowOf(r1).versionNumber
       /\ d.filePath = RowOf(r1).filePath)
        => FileExists(files, RowOf(r1).filePath)

\* C27: a STEREO or REFERENCE upload of a '.bin' file with the type
\* application/octet-stream is refused by the file type check with a 4xx
\* response
C27_BinOnlyForAtmos ==
  (/\ call.fn = "validate" /\ call.pc = "returned"
   /\ call.args.versionType # "ATMOS"
   /\ call.args.file.type = "application/octet-stream"
   /\ call.args.file.ext \in {".bin", ".BIN"})
    => (call.result.status >= 400 /\ call.result.status < 500)

\* C23: analyzeAudioFile rejects when ffprobe exits non-zero, when there is
\* no audio stream, when the loudness run of ffmpeg exits non-zero, or when
\* one of the four labelled loudness fields is missing from its output
C23_AnalyzeFailsOnMissingData ==
  (/\ call.fn = "analyzeAudioFile" /\ call.pc = "returned"
   /\ \/ call.args.ffprobe.code # 0
      \/ ~call.args.ffprobe.audioStream
      \/ call.args.ffmpeg.code # 0
      \/ \E label \in LoudnessFields : call.args.ffmpeg.stderr[label] = <<>>)
    => call.result.settled = "rejected"

\* C28: for samples that ffmpeg decoded with success and a width W >= 1,
\* generateWaveformData resolves with W values, the i-th being a number,
\* not NaN, that is the RMS of the i-th of W contiguous slices of
\* floor(len / W) samples
C28_DownsampleWidthValues ==
  (/\ call.fn = "generateWaveformData" /\ call.pc = "returned"
   /\ call.args.ffmpeg.code = 0)
    => LET samples == call.args.ffmpeg.samples
           W == call.args.width
           n == Len(samples) \div W
           value == call.result.value IN
       /\ call.result.settled = "resolved"
       /\ DOMAIN value = 1..W
       /\ \A i \in 1..W :
            /\ ~IsNaN(value[i])
            /\ value[i].length = n
            /\ value[i].sum >= 0
            /\ value[i].sum =
                 SumOfSquares([k \in 1..n |-> samples[(i - 1) * n + k]])

\* C24: a project DELETE request that is answered with an error has removed
\* no file of a version: every version row whose file was there when the
\* request ran still has it
C24_FailedProjectDeleteKeepsFiles ==
  [][\A r \in Reqs :
       (/\ req[r].op = "project_delete" /\ req[r].pc = "pdel_rows"
        /\ req'[r].pc = "done" /\ req'[r].status >= 400)
         => \A v \in versions :
              FileExists(files, v.filePath) => FileExists(files', v.filePath)]_vars

\* C25: when a track DELETE request ends with success, no file of one of
\* the track's versions is left
C25_TrackDeleteRemovesFiles ==
  [][\A r \in Reqs :
       (/\ req[r].op = "track_delete" /\ req[r].pc = "tdel_row"
        /\ req'[r].pc = "done" /\ req'[r].status = 200)
         => \A v \in versions :
              v.trackId = req[r].trackId => ~FileExists(files', v.filePath)]_vars

====
